---- MODULE Spec2Model ----
(***************************************************************************)
(* A model of the launcher core of minecraft-launcher-core:                *)
(*   src/src/lib.rs                    MinecraftGameRunner, the argument   *)
(*                                     substitutor                         *)
(*   src/src/versions/json/library.rs  Library (rules, artifact paths)     *)
(* Strings are sequences of symbols; a symbol is one character or one      *)
(* word that the code never looks into.                                    *)
(***************************************************************************)
EXTENDS Integers, Sequences, FiniteSets, TLC

VARIABLES
  \* ---- the argument substitutor applied to one input (lib.rs 578-608)
  sMap,      \* ArgumentSubstitutorBuilder.map: key -> value
  sOrder,    \* the order in which the HashMap hands out its entries
  sInput,    \* the input string
  sOut1,     \* substitutor(input)
  sOut2,     \* substitutor(substitutor(input))
  sApplied,  \* how many times the substitutor has been applied
  \* ---- Library::applies_to_current_environment on one rule list
  rRules,    \* Library.rules
  rMatcher,  \* the environment: current OS and features
  rResult,   \* the returned bool
  rDone,     \* whether the function has returned
  \* ---- launches of one version in one game directory (lib.rs 169-376)
  platform,     \* OperatingSystem::get_current_platform()
  version,      \* the resolved LocalVersionInfo
  options,      \* GameOptions
  libraryFiles, \* the files under <game_dir>/libraries and the main jar
  assetIndex,   \* assets/indexes/<id>.json
  assetFiles,   \* the reconstructed tree: logical name -> content hash
  nativesDirs,  \* versions/<id>/<id>-natives-<suffix>: suffix -> directory
  clock,        \* the wall clock, [secs, nanos]
  ticksLeft,    \* how often the clock still advances during the launches
  clockFresh,   \* the clock has advanced since a launch last named a directory
  active,       \* the runners that launch
  runner,       \* per runner: its position, its result and what it did
  \* ---- RemoteVersionInfo::fetch of one index entry (remote/mod.rs 38-45)
  fSha1,        \* RemoteVersionInfo.sha1, the digest the index gives
  fResponse,    \* what the GET of RemoteVersionInfo.url brings
  fResult,      \* the returned Result
  fDone,        \* whether fetch has returned
  \* ---- Library::create_download of one library (library.rs 50-75)
  dLibrary,       \* self
  dArtifactPath,  \* the argument artifact_path
  dClassifier,    \* the argument classifier
  dResult,        \* the returned Option: the URL of the downloadable
  dDone,          \* whether create_download has returned
  \* ---- one call of MinecraftGameRunner::launch (lib.rs 113-143)
  launchInput,    \* the installation, the version and the options
  launchPc,       \* the position of launch
  launchResult,   \* what the caller of launch gets
  launchEvents,   \* what launch has done so far, in order
  progress        \* what the progress reporter shows

substVars == <<sMap, sOrder, sInput, sOut1, sOut2, sApplied>>
rulesVars == <<rRules, rMatcher, rResult, rDone>>
inputVars == <<platform, version, options, libraryFiles, assetIndex, active>>
launchVars ==
  <<inputVars, assetFiles, nativesDirs, clock, ticksLeft, clockFresh, runner>>
fetchVars == <<fSha1, fResponse, fResult, fDone>>
downloadVars == <<dLibrary, dArtifactPath, dClassifier, dResult, dDone>>
startVars == <<launchInput, launchPc, launchResult, launchEvents, progress>>

None == "none"

----------------------------------------------------------------------------
(* Bounds *)

\* the longest input of the substitutor, in pieces
MaxPieces == 3
\* the longest rule list of a library
MaxRules == 2
\* the longest library list of a version
MaxLibs == 2
\* how often the clock advances during the launches
MaxTicks == 2

----------------------------------------------------------------------------
(* Strings *)

RECURSIVE SeqsUpTo(_, _)
SeqsUpTo(S, n) ==
  IF n = 0 THEN {<<>>}
  ELSE LET shorter == SeqsUpTo(S, n - 1)
       IN  shorter \cup {Append(s, x) : s \in {t \in shorter : Len(t) = n - 1}, x \in S}

RECURSIVE Flatten(_)
Flatten(ss) == IF ss = <<>> THEN <<>> ELSE Head(ss) \o Flatten(Tail(ss))

StartsWith(s, pat) == Len(s) >= Len(pat) /\ SubSeq(s, 1, Len(pat)) = pat

\* the places of s at which pat starts
Matches(s, pat) ==
  {i \in 1..(Len(s) - Len(pat) + 1) : SubSeq(s, i, i + Len(pat) - 1) = pat}

\* does pat occur in s
Contains(s, pat) == Matches(s, pat) # {}

\* the number of places of s at which pat starts
Count(s, pat) == Cardinality(Matches(s, pat))

\* a buggy replace: a "${" with no key match is swallowed
RECURSIVE replace_eats_dollar(_, _, _)
replace_eats_dollar(s, pat, val) ==
  IF s = <<>> THEN s
  ELSE IF StartsWith(s, pat)
         THEN val \o replace_eats_dollar(SubSeq(s, Len(pat) + 1, Len(s)), pat, val)
  ELSE IF StartsWith(s, <<"$", "{">>)
         THEN replace_eats_dollar(Tail(Tail(s)), pat, val)
  ELSE <<Head(s)>> \o replace_eats_dollar(Tail(s), pat, val)

\* str::replace: every non-overlapping match of pat, left to right; the
\* replacement is not scanned again. pat is never empty here.
RECURSIVE replace(_, _, _)
replace(s, pat, val) ==
  IF Matches(s, pat) = {} THEN s
  ELSE LET i == CHOOSE m \in Matches(s, pat) : \A n \in Matches(s, pat) : m <= n
       IN  SubSeq(s, 1, i - 1) \o val
             \o replace(SubSeq(s, i + Len(pat), Len(s)), pat, val)

\* format!("${{{}}}", key)
Placeholder(key) == <<"$", "{">> \o key \o <<"}">>

----------------------------------------------------------------------------
(* The argument substitutor *)

\* the closure returned by build(): one replace per entry of the map, in the
\* order the HashMap iterates, each on the output of the one before. The loop
\* over order is run as its first half and then its second half on the
\* output of the first; when that output holds no "${" no later replace can
\* match, and it is the result.
RECURSIVE build(_, _, _)
build(map, order, input) ==
  IF order = <<>> THEN input
  ELSE IF Len(order) = 1
    THEN replace(input, Placeholder(order[1]), map[order[1]])
  ELSE LET half == Len(order) \div 2
           output == build(map, SubSeq(order, 1, half), input)
       IN  IF Contains(output, <<"$", "{">>)
             THEN build(map, SubSeq(order, half + 1, Len(order)), output)
             ELSE output

Orders(S) ==
  {p \in SeqsUpTo(S, Cardinality(S)) :
     Len(p) = Cardinality(S) /\ \A x \in S : \E i \in 1..Len(p) : p[i] = x}

\* keys of the map and a key that is in no map
KeyA == <<"a">>
KeyB == <<"b">>
KeyU == <<"u">>
SubstKeys == {KeyA, KeyB}
SubstValues == {<<>>, <<"x">>, Placeholder(KeyA), Placeholder(KeyB)}
SubstPieces ==
  {<<"$">>, <<"x">>, <<"{", "b", "}">>,
   Placeholder(KeyA), Placeholder(KeyB), Placeholder(KeyU)}
SubstInputs == {Flatten(ps) : ps \in SeqsUpTo(SubstPieces, MaxPieces)}

SubstIdle ==
  /\ sMap = [k \in SubstKeys |-> <<>>]
  /\ sOrder = <<>>
  /\ sInput = <<>>
  /\ sOut1 = <<>>
  /\ sOut2 = <<>>
  /\ sApplied = 0

SubstInit ==
  /\ sMap \in [SubstKeys -> SubstValues]
  /\ sOrder \in Orders(SubstKeys)
  /\ sInput \in SubstInputs
  /\ sOut1 = <<>>
  /\ sOut2 = <<>>
  /\ sApplied = 0

SubstFirst ==
  /\ sApplied = 0
  /\ sOut1' = build(sMap, sOrder, sInput)
  /\ sApplied' = 1
  /\ UNCHANGED <<sMap, sOrder, sInput, sOut2>>

SubstSecond ==
  /\ sApplied = 1
  /\ sOut2' = build(sMap, sOrder, sOut1)
  /\ sApplied' = 2
  /\ UNCHANGED <<sMap, sOrder, sInput, sOut1>>

----------------------------------------------------------------------------
(* Rules of a library *)

OSes == {"windows", "linux", "osx"}
Actions == {"allow", "disallow"}
\* a rule: its action, its os constraint (or None) and whether it asks for
\* the feature has_custom_resolution
Rules == [action : Actions, os : OSes \cup {None}, feature : BOOLEAN]
Matchers == [os : OSes, custom_resolution : BOOLEAN]

\* a rule matches when every constraint it has matches
RuleMatches(rule, matcher) ==
  /\ rule.os # None => rule.os = matcher.os
  /\ rule.feature => matcher.custom_resolution

\* Rule::get_applied_action: the rule's action when it matches
get_applied_action(rule, matcher) ==
  IF RuleMatches(rule, matcher) THEN rule.action ELSE None

\* a buggy loop: the first rule that applies decides
RECURSIVE rule_loop_first_wins(_, _, _)
rule_loop_first_wins(rules, matcher, action) ==
  IF rules = <<>> THEN action
  ELSE LET applied == get_applied_action(Head(rules), matcher)
       IN  IF applied # None THEN applied
           ELSE rule_loop_first_wins(Tail(rules), matcher, action)

\* the for loop of applies_to_current_environment
RECURSIVE rule_loop(_, _, _)
rule_loop(rules, matcher, action) ==
  IF rules = <<>> THEN action
  ELSE LET applied == get_applied_action(Head(rules), matcher)
       IN  rule_loop(Tail(rules), matcher,
                     IF applied # None THEN applied ELSE action)

applies_to_current_environment(rules, matcher) ==
  IF rules = <<>> THEN TRUE
  ELSE rule_loop(rules, matcher, "disallow") = "allow"

RulesIdle ==
  /\ rRules = <<>>
  /\ rMatcher = [os |-> "linux", custom_resolution |-> FALSE]
  /\ rResult = FALSE
  /\ rDone = FALSE

RulesInit ==
  /\ rRules \in SeqsUpTo(Rules, MaxRules)
  /\ rMatcher \in Matchers
  /\ rResult = FALSE
  /\ rDone = FALSE

RulesApply ==
  /\ ~rDone
  /\ rResult' = applies_to_current_environment(rRules, rMatcher)
  /\ rDone' = TRUE
  /\ UNCHANGED <<rRules, rMatcher>>

----------------------------------------------------------------------------
(* Options are sequences of at most one element: <<>> is None, <<x>> is   *)
(* Some(x).                                                                *)

Some(x) == <<x>>
IsSome(o) == o # <<>>

\* [T]::join(sep): the elements in order with sep between two neighbours
RECURSIVE Join(_, _)
Join(ss, sep) ==
  IF ss = <<>> THEN <<>>
  ELSE IF Len(ss) = 1 THEN ss[1]
  ELSE LET half == Len(ss) \div 2
       IN  Join(SubSeq(ss, 1, half), sep) \o sep
             \o Join(SubSeq(ss, half + 1, Len(ss)), sep)

\* str::split(sep): the pieces between the separators, empty ones included
Split(s, sep) ==
  LET seps == {i \in 1..Len(s) : s[i] = sep}
      \* the place of the k-th separator; the start and the end of s count
      \* as separators 0 and Cardinality(seps) + 1
      at(k) == IF k = 0 THEN 0
               ELSE IF k > Cardinality(seps) THEN Len(s) + 1
               ELSE CHOOSE i \in seps : Cardinality({j \in seps : j < i}) = k - 1
  IN  [k \in 1..(Cardinality(seps) + 1) |-> SubSeq(s, at(k - 1) + 1, at(k) - 1)]

\* the libraries whose rules allow them in this environment
RECURSIVE SelectLibs(_, _)
SelectLibs(libs, matcher) ==
  IF libs = <<>> THEN <<>>
  ELSE (IF applies_to_current_environment(Head(libs).rules, matcher)
          THEN <<Head(libs)>> ELSE <<>>)
       \o SelectLibs(Tail(libs), matcher)

----------------------------------------------------------------------------
(* Artifacts, libraries and the files of the game directory *)

\* Artifact::get_path_string: the canonical path of a coordinate
get_path_string(a) ==
  replace(a.group, <<".">>, <<"/">>) \o <<"/">> \o a.name \o <<"/">>
    \o a.version \o <<"/">> \o a.name \o <<"-">> \o a.version
    \o (IF IsSome(a.classifier) THEN <<"-">> \o a.classifier[1] ELSE <<>>)
    \o <<".">> \o a.extension

\* Library::get_artifact_path
get_artifact_path(lib, classifier) ==
  LET new_artifact ==
        IF IsSome(classifier)
          THEN [lib.name EXCEPT !.classifier = Some(classifier[1])]
          ELSE lib.name
  IN  get_path_string(new_artifact)

\* MAIN_SEPARATOR_STR
MainSeparator(os) == IF os = "windows" THEN "\\" ELSE "/"

\* game_dir.join("libraries").join(path.replace("/", MAIN_SEPARATOR_STR)),
\* relative to the game directory
LibraryFile(os, artifact_path) ==
  <<"libraries", MainSeparator(os)>>
    \o replace(artifact_path, <<"/">>, <<MainSeparator(os)>>)

\* LocalVersionInfo::get_relevant_libraries
get_relevant_libraries(v, matcher) == SelectLibs(v.libraries, matcher)

\* versions/<jar>/<jar>.jar, relative to the game directory
MainJar(os, v) ==
  <<"versions", MainSeparator(os)>> \o v.jar \o <<MainSeparator(os)>>
    \o v.jar \o <<".", "jar">>

\* LocalVersionInfo::get_classpath: the relevant libraries without natives
\* for this OS, then the main jar
RECURSIVE ClasspathOfLibs(_, _)
ClasspathOfLibs(libs, os) ==
  IF libs = <<>> THEN <<>>
  ELSE (IF os \in DOMAIN Head(libs).natives THEN <<>>
        ELSE <<LibraryFile(os, get_artifact_path(Head(libs), <<>>))>>)
       \o ClasspathOfLibs(Tail(libs), os)

get_classpath(v, os, matcher) ==
  Append(ClasspathOfLibs(get_relevant_libraries(v, matcher), os), MainJar(os, v))

\* Path::is_file on a path below the game directory
is_file(files, path) == \E f \in files : f.path = path

FileAt(files, path) == CHOOSE f \in files : f.path = path

----------------------------------------------------------------------------
(* unpack_natives *)

\* ExtractRules::should_extract: no exclude entry is a prefix of the path
should_extract(exclude, zip_path) ==
  \A i \in 1..Len(exclude) : ~StartsWith(zip_path, exclude[i])

\* the inner fn unpack_native, over the entries from index i on: "panic" at
\* an unwrap of an entry that cannot be read or named, "Err" at the first
\* write that fails, and the entries written until then
RECURSIVE unpack_native(_, _, _, _)
unpack_native(lib, entries, extract_rules, written) ==
  IF entries = <<>> THEN [res |-> "Ok", written |-> written]
  ELSE LET file == Head(entries)
       IN  IF file.kind \in {"unreadable", "unsafe_name"}
             THEN [res |-> "panic", written |-> written]
           ELSE IF IsSome(extract_rules)
                   /\ ~should_extract(extract_rules[1], file.path)
             THEN unpack_native(lib, Tail(entries), extract_rules, written)
           ELSE IF file.kind = "dir"
             THEN unpack_native(lib, Tail(entries), extract_rules, written)
           ELSE IF file.kind = "unwritable"
             THEN [res |-> "Err", written |-> written]
           ELSE unpack_native(lib, Tail(entries), extract_rules,
                              written \cup {<<lib.id, file.path>>})

\* the for loop of unpack_natives over the relevant libraries: the paths it
\* opened, the entries it wrote and how it ended
RECURSIVE unpack_natives(_, _, _, _, _)
unpack_natives(libs, os, files, opened, written) ==
  IF libs = <<>> THEN [res |-> "Ok", opened |-> opened, written |-> written]
  ELSE LET lib == Head(libs)
       IN  IF os \notin DOMAIN lib.natives
             THEN unpack_natives(Tail(libs), os, files, opened, written)
           ELSE
             LET file == LibraryFile(os, get_artifact_path(lib, Some(lib.natives[os])))
                 nowOpened == Append(opened, file)
             IN  IF ~is_file(files, file) \/ ~FileAt(files, file).zip
                   THEN [res |-> "Err", opened |-> nowOpened, written |-> written]
                 ELSE
                   LET u == unpack_native(lib, FileAt(files, file).entries,
                                          lib.extract, written)
                   IN  IF u.res = "panic"
                         THEN [res |-> "panic", opened |-> nowOpened,
                               written |-> u.written]
                       ELSE unpack_natives(Tail(libs), os, files, nowOpened,
                                           u.written)

----------------------------------------------------------------------------
(* reconstruct_assets *)

AssetNames == {"icons/minecraft.icns", "sounds/click.ogg"}
\* a SHA-1 in hex: its first two digits and the rest
Hashes == {<<"a1", "f00d">>, <<"b2", "beef">>}

\* the should_copy of one entry of the index: dest is the content hash of the
\* destination when it is a file
should_copy(dest, hash) ==
  LET initially == TRUE
  IN  IF IsSome(dest)
        THEN (IF dest[1] # hash THEN TRUE ELSE initially)
        ELSE initially

\* the loop over get_file_map(): the names copied and the tree afterwards.
\* Every object of the index is in assets/objects: the resources job ended
\* well before launch_game starts.
reconstruct_assets(index, tree) ==
  IF ~IsSome(index) \/ ~(index[1].is_virtual \/ index[1].map_to_resources)
    THEN [res |-> "Ok", copied |-> {}, tree |-> tree]
  ELSE
    LET objects == index[1].objects
        copied == {n \in DOMAIN objects : should_copy(tree[n], objects[n])}
    IN  [res |-> "Ok",
         copied |-> copied,
         tree |-> [n \in DOMAIN tree |->
                     IF n \in copied THEN Some(objects[n]) ELSE tree[n]]]

----------------------------------------------------------------------------
(* Time and cleanup_old_natives *)

NanosPerSec == 1000000000
MillisPerSec == 1000
NanosPerMilli == 1000000
HourMillis == 3600000
\* the clock when the first launch starts
StartClock == [secs |-> 864000, nanos |-> 123456789]
\* the ages, in milliseconds, of the directories earlier launches left: two
\* hours and ten minutes
LeftoverAges == {7200000, 600000}

\* Utc::now().timestamp_millis()
timestamp_millis(c) == c.secs * MillisPerSec + c.nanos \div NanosPerMilli

\* Utc::now().nanosecond()
nanosecond(c) == c.nanos

\* the clock after d has passed
Advance(c, d) ==
  [secs |-> c.secs + d.secs + (c.nanos + d.nanos) \div NanosPerSec,
   nanos |-> (c.nanos + d.nanos) % NanosPerSec]

TickDeltas == {[secs |-> 0, nanos |-> 1], [secs |-> 1, nanos |-> 0]}

\* the names a natives directory can have: what nanosecond() can return
Suffixes == {StartClock.nanos + k : k \in 0..MaxTicks}

\* modified_time.elapsed()?.as_millis(), for a time that is not in the future
elapsed_millis(c, mtime) == timestamp_millis(c) - mtime

\* the test of cleanup_old_natives on one directory
is_expired(current_time, elapsed) == current_time - elapsed >= HourMillis

\* the directories of the one local version after cleanup_old_natives
cleanup_old_natives(c, dirs) ==
  LET current_time == timestamp_millis(c)
  IN  [d \in DOMAIN dirs |->
         IF IsSome(dirs[d])
            /\ is_expired(current_time, elapsed_millis(c, dirs[d][1].mtime))
           THEN <<>>
           ELSE dirs[d]]

----------------------------------------------------------------------------
(* The command line *)

Ph(name) == Placeholder(<<name>>)

DEFAULT_JRE_ARGUMENTS_32BIT ==
  <<"-Xmx2G", " ", "-XX:+UnlockExperimentalVMOptions", " ", "-XX:+UseG1GC", " ",
    "-XX:G1NewSizePercent=20", " ", "-XX:G1ReservePercent=20", " ",
    "-XX:MaxGCPauseMillis=50", " ", "-XX:G1HeapRegionSize=32M">>
DEFAULT_JRE_ARGUMENTS_64BIT ==
  <<"-Xmx2G", " ", "-XX:+UnlockExperimentalVMOptions", " ", "-XX:+UseG1GC", " ",
    "-XX:G1NewSizePercent=20", " ", "-XX:G1ReservePercent=20", " ",
    "-XX:MaxGCPauseMillis=50", " ", "-XX:G1HeapRegionSize=32M">>
ARCH == "x86_64"

Redacted == <<"?", "?", "?", "?", "?">>

RECURSIVE SetToSeq(_)
SetToSeq(S) ==
  IF S = {} THEN <<>>
  ELSE LET x == CHOOSE y \in S : TRUE
       IN  <<x>> \o SetToSeq(S \ {x})

\* the closure create_arguments_substitutor returns, applied to s: sub is
\* the map with the order in which its entries are visited
substitutor(sub, s) == build(sub.map, sub.order, s)

\* one order in which the HashMap hands out the keys of the launcher: the
\* keys of KeyOrder that the map holds, then the others
KeyOrder ==
  <<<<"auth_access_token">>, <<"auth_session">>, <<"auth_player_name">>,
    <<"auth_uuid">>, <<"user_type">>, <<"profile_name">>, <<"version_name">>,
    <<"game_directory">>, <<"game_assets">>, <<"assets_root">>,
    <<"assets_index_name">>, <<"version_type">>, <<"resolution_width">>,
    <<"resolution_height">>, <<"language">>, <<"launcher_name">>,
    <<"launcher_version">>, <<"natives_directory">>, <<"classpath">>,
    <<"classpath_separator">>, <<"primary_jar">>, <<"clientid">>,
    <<"auth_xuid">>, <<"library_directory">>>>

Substitutor(map) ==
  [map |-> map,
   order |-> SelectSeq(KeyOrder, LAMBDA k : k \in DOMAIN map)
               \o SetToSeq(DOMAIN map \ {KeyOrder[i] : i \in 1..Len(KeyOrder)})]

\* .map(&substitutor)
MapSubstitutor(map, ss) == [i \in 1..Len(ss) |-> substitutor(map, ss[i])]

\* the natives directory of a launch, relative to the game directory
NativesDirPath(os, v, suffix) ==
  <<"versions", MainSeparator(os)>> \o v.id \o <<MainSeparator(os)>>
    \o v.id \o <<"-natives-", ToString(suffix)>>

\* asset_index_substitutions: "asset=<name>" -> the path of the object
AssetSubstitutions(os, index) ==
  IF IsSome(index)
    THEN [k \in {<<"asset=", n>> : n \in DOMAIN index[1].objects} |->
            <<"assets", MainSeparator(os), "objects", MainSeparator(os),
              index[1].objects[k[2]][1], MainSeparator(os)>>
              \o index[1].objects[k[2]]]
    ELSE <<>>

\* the map after a sequence of add(key, value): the last value added for a
\* key is the one the map holds
Added(entries) ==
  [k \in {entries[i][1] : i \in 1..Len(entries)} |->
     entries[CHOOSE i \in 1..Len(entries) :
               /\ entries[i][1] = k
               /\ \A j \in (i + 1)..Len(entries) : entries[j][1] # k][2]]

\* the map create_arguments_substitutor fills: the keys it adds one by one,
\* the asset paths, and last the overrides of the options
Substitutions(os, v, opts, index, suffix, classpath) ==
  opts.substitutor_overrides @@
  AssetSubstitutions(os, index) @@
  Added(<<
    <<<<"auth_access_token">>, opts.token>>,
    <<<<"auth_session">>, <<"token:">> \o opts.token \o <<":", "uuid">>>>,
    <<<<"auth_player_name">>, <<"Steve">>>>,
    <<<<"auth_uuid">>, <<"uuid">>>>,
    <<<<"user_type">>, <<"msa">>>>,
    <<<<"profile_name">>, <<>>>>,
    <<<<"version_name">>, v.id>>,
    <<<<"game_directory">>, <<".">>>>,
    <<<<"game_assets">>, <<"assets", MainSeparator(os), "virtual">>>>,
    <<<<"assets_root">>, <<"assets">>>>,
    <<<<"assets_index_name">>, <<"index">>>>,
    <<<<"version_type">>, <<"release">>>>,
    <<<<"resolution_width">>, IF IsSome(opts.resolution) THEN <<"854">> ELSE <<>>>>,
    <<<<"resolution_height">>, IF IsSome(opts.resolution) THEN <<"480">> ELSE <<>>>>,
    <<<<"language">>, <<"en-us">>>>,
    <<<<"launcher_name">>, <<"launcher">>>>,
    <<<<"launcher_version">>, <<"1.0">>>>,
    <<<<"natives_directory">>, NativesDirPath(os, v, suffix)>>,
    <<<<"classpath">>, classpath>>,
    <<<<"classpath_separator">>, <<IF os = "windows" THEN ";" ELSE ":">>>>,
    <<<<"primary_jar">>, MainJar(os, v)>>,
    <<<<"clientid">>, <<>>>>,
    <<<<"auth_xuid">>, <<>>>>,
    <<<<"library_directory">>, <<"libraries">>>>
  >>)

\* RuleArg::apply, flattened: the values of an argument whose rules allow it
RECURSIVE ApplyAll(_, _)
ApplyAll(arguments, matcher) ==
  IF arguments = <<>> THEN <<>>
  ELSE (IF applies_to_current_environment(Head(arguments).rules, matcher)
          THEN Head(arguments).value ELSE <<>>)
       \o ApplyAll(Tail(arguments), matcher)

\* the arguments given to the builder before the version's
user_jvm_arguments(opts) ==
  IF IsSome(opts.jvm_args) THEN opts.jvm_args[1]
  ELSE Split(IF ARCH = "x86_64" THEN DEFAULT_JRE_ARGUMENTS_64BIT
             ELSE DEFAULT_JRE_ARGUMENTS_32BIT, " ")

\* what the legacy branch adds before the main class
legacy_jvm_arguments(plat, map) ==
  (IF plat.os = "windows"
     THEN <<<<"-XX:HeapDumpPath=MojangTricksIntelDriversForPerformance_javaw.exe_minecraft.exe.heapdump">>>>
          \o (IF plat.win_ten
                THEN <<<<"-Dos.name=Windows 10">>, <<"-Dos.version=10.0">>>>
                ELSE <<>>)
   ELSE IF plat.os = "osx"
     THEN <<substitutor(map, <<"-Xdock:icon=">>
                               \o Placeholder(<<"asset=", "icons/minecraft.icns">>)),
            <<"-Xdock:name=Minecraft">>>>
   ELSE <<>>)
  \o <<substitutor(map, <<"-Djava.library.path=">> \o Ph("natives_directory")),
       substitutor(map, <<"-Dminecraft.launcher.brand=">> \o Ph("launcher_name")),
       substitutor(map, <<"-Dminecraft.launcher.version=">> \o Ph("launcher_version")),
       substitutor(map, <<"-Dminecraft.client.jar=">> \o Ph("primary_jar")),
       <<"-cp">>,
       substitutor(map, Ph("classpath"))>>

\* what the legacy branch adds after the main class
legacy_game_arguments(v, matcher, map) ==
  MapSubstitutor(map, Split(v.minecraft_arguments[1], " "))
  \o (IF matcher.is_demo_user THEN <<<<"--demo">>>> ELSE <<>>)
  \o (IF matcher.custom_resolution
        THEN <<<<"--width">>, substitutor(map, Ph("resolution_width")),
               <<"--height">>, substitutor(map, Ph("resolution_height"))>>
        ELSE <<>>)

\* a buggy choice of the shape: the legacy string wins when it is there
version_arguments_legacy_first(v, kind, plat, matcher, map) ==
  IF IsSome(v.minecraft_arguments)
    THEN (IF kind = "jvm" THEN legacy_jvm_arguments(plat, map)
          ELSE legacy_game_arguments(v, matcher, map))
  ELSE IF kind \in DOMAIN v.arguments
    THEN MapSubstitutor(map, ApplyAll(v.arguments[kind], matcher))
  ELSE <<>>

\* the version's arguments of one kind ("jvm" before the main class, "game"
\* after it): the modern shape when the map is not empty, else the legacy one
version_arguments(v, kind, plat, matcher, map) ==
  IF DOMAIN v.arguments # {}
    THEN (IF kind \in DOMAIN v.arguments
            THEN MapSubstitutor(map, ApplyAll(v.arguments[kind], matcher))
            ELSE <<>>)
  ELSE IF IsSome(v.minecraft_arguments)
    THEN (IF kind = "jvm" THEN legacy_jvm_arguments(plat, map)
          ELSE legacy_game_arguments(v, matcher, map))
  ELSE <<>>

\* the arguments of the builder when "Half command" is logged
half_command(v, opts, plat, matcher, map) ==
  user_jvm_arguments(opts)
    \o version_arguments(v, "jvm", plat, matcher, map)
    \o <<v.main_class>>

\* the "Running" line: the token is replaced when it is not empty
redact(args, token) ==
  IF token # <<>> THEN replace(args, token, Redacted) ELSE args

\* Regex \$\{.+\} on one argument: from the first "${" to the last "}" with
\* something between them
LastIndexOf(s, x) ==
  IF \E i \in 1..Len(s) : s[i] = x
    THEN CHOOSE i \in 1..Len(s) : s[i] = x /\ \A j \in (i + 1)..Len(s) : s[j] # x
    ELSE 0

FirstPlaceholderStart(s) ==
  IF \E i \in 1..(Len(s) - 1) : s[i] = "$" /\ s[i + 1] = "{"
    THEN CHOOSE i \in 1..(Len(s) - 1) :
           /\ s[i] = "$" /\ s[i + 1] = "{"
           /\ \A j \in 1..(i - 1) : ~(s[j] = "$" /\ s[j + 1] = "{")
    ELSE 0

unresolved_variable(arg) ==
  LET i == FirstPlaceholderStart(arg)
      j == LastIndexOf(arg, "}")
  IN  IF i > 0 /\ j >= i + 3 THEN Some(SubSeq(arg, i, j)) ELSE <<>>

\* one "Unresolved variable" line per argument the regex finds a match in
UnresolvedLines(args) ==
  LET found == SelectSeq(args, LAMBDA arg : IsSome(unresolved_variable(arg)))
  IN  [i \in 1..Len(found) |->
         [kind |-> "Unresolved variable", text |-> unresolved_variable(found[i])[1]]]

\* construct_classpath: Err when a path of the classpath is not a file
construct_classpath(v, plat, matcher, files) ==
  LET classpath == get_classpath(v, plat.os, matcher)
  IN  IF \E i \in 1..Len(classpath) : ~is_file(files, classpath[i])
        THEN [res |-> "Err", classpath |-> <<>>]
        ELSE [res |-> "Ok",
              classpath |-> Join(classpath, <<IF plat.os = "windows" THEN ";" ELSE ":">>)]

----------------------------------------------------------------------------
(* The inputs of the launches *)

Runners == {1, 2}

Artifact(name) ==
  [group |-> <<"org", ".", "lib">>, name |-> <<name>>, version |-> <<"1.0">>,
   classifier |-> <<>>, extension |-> <<"jar">>]

NativesFor(classifier) == [os \in OSes |-> <<"natives-", os>> \o classifier]

Lib(name, rules, natives, extract) ==
  [id |-> name, name |-> Artifact(name), rules |-> rules, natives |-> natives,
   extract |-> extract]

\* a jar of the libraries directory
Jar(os, lib, classifier, entries) ==
  [path |-> LibraryFile(os, get_artifact_path(lib, classifier)),
   zip |-> TRUE, entries |-> entries]

Entry(path, kind) == [path |-> path, kind |-> kind]

PlainLib == Lib("plain", <<>>, <<>>, <<>>)
GoneLib == Lib("gone", <<>>, <<>>, <<>>)
OsxOnlyLib ==
  Lib("osx-only", <<[action |-> "allow", os |-> "osx", feature |-> FALSE]>>,
      <<>>, <<>>)
NativeLib == Lib("native", <<>>, NativesFor(<<>>), <<>>)
NativeGoneLib == Lib("native-gone", <<>>, NativesFor(<<>>), <<>>)
NativeUnwritableLib == Lib("native-unwritable", <<>>, NativesFor(<<>>), <<>>)
NativeUnreadableLib == Lib("native-unreadable", <<>>, NativesFor(<<>>), <<>>)
NativeArchLib ==
  Lib("native-arch", <<>>, NativesFor(<<"-">> \o Ph("arch")), <<>>)
NativeExcludeLib ==
  Lib("native-exclude", <<>>, NativesFor(<<>>), Some(<<<<"META-INF">>>>))

\* a library of a version with the files the libraries directory holds for
\* it on this OS: a native jar is stored under its classifier with ${arch}
\* expanded
LibraryScenarios(os) ==
  {[lib |-> PlainLib, files |-> {Jar(os, PlainLib, <<>>, <<>>)}],
   [lib |-> GoneLib, files |-> {}],
   [lib |-> OsxOnlyLib,
    files |-> IF os = "osx" THEN {Jar(os, OsxOnlyLib, <<>>, <<>>)} ELSE {}],
   [lib |-> NativeLib,
    files |-> {Jar(os, NativeLib, Some(NativeLib.natives[os]),
                   <<Entry(<<"a.so">>, "file"), Entry(<<"sub">>, "dir"),
                     Entry(<<"sub", "b.so">>, "file")>>)}],
   [lib |-> NativeGoneLib, files |-> {}],
   [lib |-> NativeUnwritableLib,
    files |-> {Jar(os, NativeUnwritableLib, Some(NativeUnwritableLib.natives[os]),
                   <<Entry(<<"c.so">>, "unwritable"), Entry(<<"d.so">>, "file")>>)}],
   [lib |-> NativeUnreadableLib,
    files |-> {Jar(os, NativeUnreadableLib, Some(NativeUnreadableLib.natives[os]),
                   <<Entry(<<"e.so">>, "unreadable"), Entry(<<"f.so">>, "file")>>)}],
   [lib |-> NativeArchLib,
    files |-> {Jar(os, NativeArchLib, Some(<<"natives-", os, "-", "64">>),
                   <<Entry(<<"g.so">>, "file")>>)}],
   [lib |-> NativeExcludeLib,
    files |-> {Jar(os, NativeExcludeLib, Some(NativeExcludeLib.natives[os]),
                   <<Entry(<<"META-INF", "MANIFEST.MF">>, "file"),
                     Entry(<<"h.so">>, "file")>>)}]}

Arg(value) == [rules |-> <<>>, value |-> <<value>>]

ModernJvm ==
  <<Arg(<<"-Djava.library.path=">> \o Ph("natives_directory")),
    Arg(<<"-cp">>), Arg(Ph("classpath"))>>
ModernJvmWithToken ==
  Append(ModernJvm, Arg(<<"-Dtoken=">> \o Ph("auth_access_token")))
ModernGame ==
  <<Arg(<<"--username">>), Arg(Ph("auth_player_name")),
    Arg(<<"--accessToken">>), Arg(Ph("auth_access_token")),
    [rules |-> <<[action |-> "allow", os |-> None, feature |-> TRUE]>>,
     value |-> <<<<"--width">>, Ph("resolution_width")>>]>>
ModernGameUnresolved ==
  <<Arg(<<"--quickPlayPath">>), Arg(Ph("quickPlayPath")),
    Arg(<<"--clientId">>), Arg(Ph("clientid")),
    Arg(<<"--accessToken">>), Arg(Ph("auth_access_token"))>>

ArgumentsChoices ==
  {<<>>,
   ("jvm" :> ModernJvm),
   ("jvm" :> ModernJvmWithToken) @@ ("game" :> ModernGame),
   ("jvm" :> ModernJvm) @@ ("game" :> ModernGame),
   ("game" :> ModernGameUnresolved)}

LegacyArguments ==
  <<"--username", " ">> \o Ph("auth_player_name")
    \o <<" ", "--session", " ">> \o Ph("auth_session")

Platforms ==
  {p \in [os : OSes, win_ten : BOOLEAN] : p.win_ten => p.os = "windows"}
Linux == [os |-> "linux", win_ten |-> FALSE]

VersionWith(libs, arguments, minecraft_arguments) ==
  [id |-> <<"1.20.1">>, jar |-> <<"1.20.1">>, main_class |-> <<"net.minecraft.client.main.Main">>,
   libraries |-> libs, arguments |-> arguments,
   minecraft_arguments |-> minecraft_arguments]

OptionsWith(token, jvm_args, resolution) ==
  [token |-> token, jvm_args |-> jvm_args, resolution |-> resolution,
   java_path |-> <<"java">>, java_runs |-> TRUE, substitutor_overrides |-> <<>>]

MainJarFile(os, v) == [path |-> MainJar(os, v), zip |-> TRUE, entries |-> <<>>]

RECURSIVE LibsOf(_)
LibsOf(scenarios) ==
  IF scenarios = <<>> THEN <<>>
  ELSE <<Head(scenarios).lib>> \o LibsOf(Tail(scenarios))

FilesOf(scenarios) ==
  UNION {scenarios[i].files : i \in 1..Len(scenarios)}

DefaultIndex ==
  Some([is_virtual |-> TRUE, map_to_resources |-> FALSE,
        objects |-> [n \in AssetNames |->
                       IF n = "icons/minecraft.icns" THEN <<"a1", "f00d">>
                       ELSE <<"b2", "beef">>]])
DefaultScenarios(os) ==
  <<CHOOSE s \in LibraryScenarios(os) : s.lib = PlainLib,
    CHOOSE s \in LibraryScenarios(os) : s.lib = NativeLib>>

DirNames == Suffixes \cup {1, 2}
NoDirs == [d \in DirNames |-> <<>>]
Dir(mtime) == Some([mtime |-> mtime, files |-> {}])

NewRunner ==
  [pc |-> "start", result |-> "none", error |-> "", natives_dir |-> <<>>,
   opened |-> <<>>, written |-> {}, copied |-> {}, args |-> <<>>, log |-> <<>>,
   classpath_checked |-> FALSE, spawned |-> FALSE]

\* what every launch starts from
LaunchStart ==
  /\ clock = StartClock
  /\ clockFresh = TRUE
  /\ runner = [r \in Runners |-> NewRunner]

\* launches that differ in the libraries of the version and their files
InitLibraries ==
  /\ platform = Linux
  /\ \E ss \in SeqsUpTo(LibraryScenarios("linux"), MaxLibs) :
       /\ version = VersionWith(LibsOf(ss), ("jvm" :> ModernJvm), <<>>)
       /\ \E main \in SUBSET {MainJarFile("linux", version)} :
            libraryFiles = FilesOf(ss) \cup main
  /\ options = OptionsWith(<<"T">>, <<>>, <<>>)
  /\ assetIndex = DefaultIndex
  /\ assetFiles = [n \in AssetNames |-> <<>>]
  /\ nativesDirs = NoDirs
  /\ ticksLeft = 0
  /\ active = {1}

\* launches that differ in the arguments of the version and the options
InitArguments ==
  /\ platform \in Platforms
  /\ \E arguments \in ArgumentsChoices, legacy \in {<<>>, Some(LegacyArguments)} :
       version = VersionWith(LibsOf(DefaultScenarios(platform.os)), arguments, legacy)
  /\ libraryFiles =
       FilesOf(DefaultScenarios(platform.os)) \cup {MainJarFile(platform.os, version)}
  /\ \E token \in {<<>>, <<"T">>}, jvm_args \in {<<>>, Some(<<<<"-Xmx1G">>>>)},
        resolution \in {<<>>, Some("854x480")}, java_runs \in BOOLEAN :
       options = [OptionsWith(token, jvm_args, resolution) EXCEPT !.java_runs = java_runs]
  /\ assetIndex = DefaultIndex
  /\ assetFiles = [n \in AssetNames |-> <<>>]
  /\ nativesDirs = NoDirs
  /\ ticksLeft = 0
  /\ active = {1}

\* launches that differ in the asset index and the reconstructed tree
InitAssets ==
  /\ platform = Linux
  /\ version = VersionWith(LibsOf(DefaultScenarios("linux")), ("jvm" :> ModernJvm), <<>>)
  /\ libraryFiles = FilesOf(DefaultScenarios("linux")) \cup {MainJarFile("linux", version)}
  /\ options = OptionsWith(<<"T">>, <<>>, <<>>)
  /\ \E is_virtual \in BOOLEAN, map_to_resources \in BOOLEAN :
       assetIndex = Some([DefaultIndex[1] EXCEPT !.is_virtual = is_virtual,
                                                !.map_to_resources = map_to_resources])
  /\ assetFiles \in [AssetNames -> {<<>>} \cup {Some(h) : h \in Hashes}]
  /\ nativesDirs = NoDirs
  /\ ticksLeft = 0
  /\ active = {1}

\* two launches, with natives directories left by earlier launches
InitNatives ==
  /\ platform = Linux
  /\ version = VersionWith(LibsOf(DefaultScenarios("linux")), ("jvm" :> ModernJvm), <<>>)
  /\ libraryFiles = FilesOf(DefaultScenarios("linux")) \cup {MainJarFile("linux", version)}
  /\ options = OptionsWith(<<"T">>, <<>>, <<>>)
  /\ assetIndex = DefaultIndex
  /\ assetFiles = [n \in AssetNames |-> <<>>]
  /\ \E left \in [{1, 2} -> {<<>>} \cup {Dir(timestamp_millis(StartClock) - age) :
                                            age \in LeftoverAges}] :
       nativesDirs = [d \in DirNames |-> IF d \in {1, 2} THEN left[d] ELSE <<>>]
  /\ ticksLeft = MaxTicks
  /\ active = Runners

LaunchInit ==
  /\ LaunchStart
  /\ (InitLibraries \/ InitArguments \/ InitAssets \/ InitNatives)

LaunchIdle ==
  /\ LaunchStart
  /\ platform = Linux
  /\ version = VersionWith(<<>>, <<>>, <<>>)
  /\ options = OptionsWith(<<>>, <<>>, <<>>)
  /\ libraryFiles = {}
  /\ assetIndex = <<>>
  /\ assetFiles = [n \in AssetNames |-> <<>>]
  /\ nativesDirs = NoDirs
  /\ ticksLeft = 0
  /\ active = {}

----------------------------------------------------------------------------
(* launch_game, in the steps between which another launch or the clock can *)
(* act                                                                      *)

\* MinecraftFeatureMatcher(false, options.resolution)
Matcher ==
  [os |-> platform.os, custom_resolution |-> IsSome(options.resolution),
   is_demo_user |-> FALSE]

Finish(r, result, error) ==
  [runner EXCEPT ![r].pc = "done", ![r].result = result, ![r].error = error]

\* lib.rs 170-175: name the natives directory after the clock's nanosecond
\* and create it unless it is there
LaunchGameBegin(r) ==
  /\ r \in active
  /\ runner[r].pc = "start"
  /\ clockFresh
  /\ LET suffix == nanosecond(clock)
     IN  /\ nativesDirs' =
              IF IsSome(nativesDirs[suffix]) THEN nativesDirs
              ELSE [nativesDirs EXCEPT ![suffix] = Dir(timestamp_millis(clock))]
         /\ runner' = [runner EXCEPT ![r].pc = "unpack",
                                     ![r].natives_dir = Some(suffix)]
  /\ clockFresh' = FALSE
  /\ UNCHANGED <<inputVars, assetFiles, clock, ticksLeft>>

\* lib.rs 177-182: unpack_natives into that directory
UnpackNatives(r) ==
  /\ runner[r].pc = "unpack"
  /\ LET u == unpack_natives(get_relevant_libraries(version, Matcher),
                             platform.os, libraryFiles, <<>>, {})
         suffix == runner[r].natives_dir[1]
         paths == {w[2] : w \in u.written}
         before == IF IsSome(nativesDirs[suffix])
                     THEN nativesDirs[suffix][1].files ELSE {}
     IN  /\ nativesDirs' =
              IF paths = {} THEN nativesDirs
              ELSE [nativesDirs EXCEPT ![suffix] =
                      Some([mtime |-> timestamp_millis(clock),
                            files |-> before \cup paths])]
         /\ runner' =
              [(IF u.res = "Ok" THEN [runner EXCEPT ![r].pc = "assets"]
                ELSE Finish(r, u.res, "Couldn't unpack natives!"))
               EXCEPT ![r].opened = u.opened, ![r].written = u.written]
  /\ UNCHANGED <<inputVars, assetFiles, clock, ticksLeft, clockFresh>>

\* lib.rs 184-191: reconstruct_assets
ReconstructAssets(r) ==
  /\ runner[r].pc = "assets"
  /\ LET a == reconstruct_assets(assetIndex, assetFiles)
     IN  /\ assetFiles' = a.tree
         /\ runner' = [runner EXCEPT ![r].pc = "command", ![r].copied = a.copied]
  /\ UNCHANGED <<inputVars, nativesDirs, clock, ticksLeft, clockFresh>>

\* lib.rs 193-329: build the command line, log it and spawn the process.
\* The unwrap of construct_classpath's result panics when a file is missing.
AssembleAndSpawn(r) ==
  /\ runner[r].pc = "command"
  /\ LET cp == construct_classpath(version, platform, Matcher, libraryFiles)
         map == Substitutor(Substitutions(platform.os, version, options, assetIndex,
                                          runner[r].natives_dir[1], cp.classpath))
         half == half_command(version, options, platform, Matcher, map)
         args == half \o version_arguments(version, "game", platform, Matcher, map)
         lines ==
           <<[kind |-> "Half command", text |-> Join(half, <<" ">>)],
             [kind |-> "Running",
              text |-> options.java_path \o <<" ">>
                         \o redact(Join(args, <<" ">>), options.token)]>>
           \o UnresolvedLines(args)
     IN  runner' =
           IF cp.res = "Err"
             THEN [Finish(r, "panic", "Classpath file not found")
                   EXCEPT ![r].classpath_checked = TRUE]
             ELSE [runner EXCEPT ![r].pc = "cleanup",
                                 ![r].classpath_checked = TRUE,
                                 ![r].args = args,
                                 ![r].log = lines,
                                 ![r].spawned = options.java_runs]
  /\ UNCHANGED <<inputVars, assetFiles, nativesDirs, clock, ticksLeft, clockFresh>>

\* lib.rs 331-336: perform_cleanups, then the result of the spawn
Cleanups(r) ==
  /\ runner[r].pc = "cleanup"
  /\ nativesDirs' = cleanup_old_natives(clock, nativesDirs)
  /\ runner' = IF runner[r].spawned THEN Finish(r, "Ok", "")
               ELSE Finish(r, "Err", "Failed to launch game")
  /\ UNCHANGED <<inputVars, assetFiles, clock, ticksLeft, clockFresh>>

\* time passes
Tick ==
  /\ ticksLeft > 0
  /\ \E r \in active : runner[r].pc # "done"
  /\ \E d \in TickDeltas : clock' = Advance(clock, d)
  /\ ticksLeft' = ticksLeft - 1
  /\ clockFresh' = TRUE
  /\ UNCHANGED <<inputVars, assetFiles, nativesDirs, runner>>


----------------------------------------------------------------------------
(* RemoteVersionInfo::fetch *)

\* the longest per-version document, in symbols
MaxDocLen == 3

\* the symbols of a document and what each adds to the digest
DocSymbols == {"{", "}", "a", "b"}
Weight(x) == CASE x = "{" -> 1 [] x = "}" -> 2 [] x = "a" -> 3 [] OTHER -> 5

Documents == SeqsUpTo(DocSymbols, MaxDocLen)

\* Sha1Sum::from_reader: a digest of the bytes and of nothing else; two
\* documents can have the same digest
RECURSIVE Sha1SumFrom(_, _)
Sha1SumFrom(bytes, i) ==
  IF i > Len(bytes) THEN 0
  ELSE (i * Weight(bytes[i]) + Sha1SumFrom(bytes, i + 1)) % 17

Sha1Sum(bytes) == Sha1SumFrom(bytes, 1)

\* serde_json::from_slice::<LocalVersionInfo>: a document is an object with
\* the id of the version in it
from_slice(bytes) ==
  IF Len(bytes) = 3 /\ bytes[1] = "{" /\ bytes[3] = "}" /\ bytes[2] \in {"a", "b"}
    THEN Some([id |-> bytes[2]])
    ELSE <<>>

Ok(value) == [res |-> "Ok", value |-> Some(value), error |-> ""]
Err(error) == [res |-> "Err", value |-> <<>>, error |-> error]

\* a buggy fetch: the digest is computed and never compared
fetch_unverified(sha1, response) ==
  IF ~IsSome(response) THEN Err("request")
  ELSE IF IsSome(from_slice(response[1])) THEN Ok(from_slice(response[1])[1])
  ELSE Err("json")

\* RemoteVersionInfo::fetch: response is None when the request or the read
\* of its body fails
fetch(sha1, response) ==
  IF ~IsSome(response) THEN Err("request")
  ELSE LET bytes == response[1]
       IN  IF Sha1Sum(bytes) # sha1 THEN Err("Sha1 mismatch")
           ELSE IF IsSome(from_slice(bytes)) THEN Ok(from_slice(bytes)[1])
           ELSE Err("json")

\* the documents the index entries were made from
IndexedDocuments == {<<"{", "a", "}">>, <<"{", "b", "}">>, <<"a">>}

FetchIdle ==
  /\ fSha1 = 0
  /\ fResponse = <<>>
  /\ fResult = Err("")
  /\ fDone = FALSE

FetchInit ==
  /\ fSha1 \in {Sha1Sum(d) : d \in IndexedDocuments}
  /\ fResponse \in {<<>>} \cup {Some(d) : d \in Documents}
  /\ fResult = Err("")
  /\ fDone = FALSE

Fetch ==
  /\ ~fDone
  /\ fResult' = fetch(fSha1, fResponse)
  /\ fDone' = TRUE
  /\ UNCHANGED <<fSha1, fResponse>>

----------------------------------------------------------------------------
(* Library::create_download *)

\* A URL string is <<scheme, "://", host>>, then the symbols of the path, then
\* "?" and the query when there is one.

\* Url::parse, for the strings of this model: None unless the string starts
\* with an http(s) scheme and a host; an empty path is "/"
Url_parse(str) ==
  IF Len(str) >= 3 /\ str[1] \in {"https", "http"} /\ str[2] = "://"
    THEN LET marks == {i \in 4..Len(str) : str[i] = "?"}
             q == IF marks = {} THEN Len(str) + 1
                  ELSE CHOOSE i \in marks : \A j \in marks : i <= j
             path == SubSeq(str, 4, q - 1)
         IN  Some([scheme |-> str[1], host |-> str[3],
                   path |-> IF path = <<>> THEN <<"/">> ELSE path,
                   query |-> SubSeq(str, q, Len(str))])
    ELSE <<>>

\* the path percent-encode set, for the symbols of this model: { and }
percent_encode(str) ==
  [i \in 1..Len(str) |->
     CASE str[i] = "{" -> "%7B" [] str[i] = "}" -> "%7D" [] OTHER -> str[i]]

\* a buggy set_path: the new path is appended to the old one
set_path_appends(url, path) ==
  [url EXCEPT !.path = @ \o percent_encode(path)]

\* Url::set_path on an http(s) URL: the path is replaced, it starts with
\* "/" afterwards, and the query stays
set_path(url, path) ==
  [url EXCEPT !.path =
     percent_encode(IF StartsWith(path, <<"/">>) THEN path ELSE <<"/">> \o path)]

\* Url::as_str
as_str(url) == <<url.scheme, "://", url.host>> \o url.path \o url.query

DefaultBase == <<"https", "://", "libraries.minecraft.net", "/">>

\* LibraryDownloadInfo::get_download_info
get_download_info(downloads, classifier) ==
  IF IsSome(classifier)
    THEN (IF classifier[1] \in DOMAIN downloads.classifiers
            THEN Some(downloads.classifiers[classifier[1]]) ELSE <<>>)
    ELSE Some(downloads.artifact)

\* Library::create_download: the downloadable it makes, by its kind and URL
create_download(self, artifact_path, classifier) ==
  IF IsSome(self.url)
    THEN LET url == Url_parse(self.url[1])
         IN  IF ~IsSome(url) THEN <<>>
             ELSE Some([kind |-> "ChecksummedDownloadable",
                        url |-> as_str(set_path(url[1],
                                                get_artifact_path(self, classifier)))])
  ELSE IF IsSome(self.downloads)
    THEN LET info == get_download_info(self.downloads[1], classifier)
         IN  IF IsSome(info)
               THEN Some([kind |-> "PreHashedDownloadable", url |-> info[1].url])
               ELSE <<>>
  ELSE LET url == Url_parse(DefaultBase)
       IN  IF ~IsSome(url) THEN <<>>
           ELSE Some([kind |-> "ChecksummedDownloadable",
                      url |-> as_str(set_path(url[1], artifact_path))])

\* the bases a library can name: with and without a path of their own, with
\* a query, and a string that is no URL
LibraryBases ==
  {<<"https", "://", "maven.example">>,
   <<"https", "://", "maven.example", "/", "repo", "/">>,
   <<"https", "://", "maven.example", "/", "repo", "/", "?", "key=1">>,
   <<"maven.example", "/", "repo">>}

DownloadClassifiers ==
  {<<>>, Some(<<"natives-", "linux">>), Some(<<"natives-", "linux", "-">> \o Ph("arch"))}

SomeDownloads ==
  [artifact |-> [url |-> <<"https", "://", "cdn.example", "/", "plain.jar">>],
   classifiers |->
     (<<"natives-", "linux">> :>
        [url |-> <<"https", "://", "cdn.example", "/", "plain-natives.jar">>])]

\* a library as create_download sees it
DownloadLibrary(name, url, downloads) ==
  [id |-> name, name |-> Artifact(name), rules |-> <<>>, natives |-> <<>>,
   extract |-> <<>>, url |-> url, downloads |-> downloads]

DownloadIdle ==
  /\ dLibrary = DownloadLibrary("plain", <<>>, <<>>)
  /\ dArtifactPath = <<>>
  /\ dClassifier = <<>>
  /\ dResult = <<>>
  /\ dDone = FALSE

DownloadInit ==
  /\ \E url \in {<<>>} \cup {Some(b) : b \in LibraryBases},
        downloads \in {<<>>, Some(SomeDownloads)} :
       dLibrary = DownloadLibrary("plain", url, downloads)
  /\ dClassifier \in DownloadClassifiers
  /\ dArtifactPath \in
       {get_artifact_path(dLibrary, c) : c \in DownloadClassifiers}
         \cup {<<"/">> \o get_artifact_path(dLibrary, <<>>)}
  /\ dResult = <<>>
  /\ dDone = FALSE

CreateDownload ==
  /\ ~dDone
  /\ dResult' = create_download(dLibrary, dArtifactPath, dClassifier)
  /\ dDone' = TRUE
  /\ UNCHANGED <<dLibrary, dArtifactPath, dClassifier>>

----------------------------------------------------------------------------
(* MinecraftGameRunner::launch, from the version manifest to the process.  *)
(* The version manager, the download jobs and the file system answer each  *)
(* call with Ok or Err; launchEvents is the order of what a launch did.     *)

Outcomes == {"Ok", "Err"}
\* ProxyOptions: no proxy, or the URL of one, which names its port or not
Proxies == {"NoProxy", "Proxy:with port", "Proxy:without port"}

\* how launch or one of its parts ended: res is "Next" when launch goes on
Ended(res, error, events, shown) ==
  [res |-> res, error |-> error, events |-> events, progress |-> shown]

\* ProgressReporter: what it shows, <<>> when nothing or after clear()
Shown(status, done, total) == Some([status |-> status, progress |-> done, total |-> total])

\* a buggy launch: the version is never checked against the environment
launch_prepare_unchecked(input, out) ==
  LET fetching == Shown("Fetching version manifest", 0, 2)
      resolving == Shown("Resolving local version", 1, 2)
      e1 == <<"refresh:Ok">>
      e2 == e1 \o (IF input.local THEN <<>> ELSE <<"install_version:Ok">>)
      e3 == e2 \o (IF out.up_to_date THEN <<>> ELSE <<"install_version:Ok">>)
  IN  IF out.refresh = "Err"
        THEN Ended("Err", "refresh", <<"refresh:Err">>, fetching)
      ELSE IF ~input.local /\ out.install = "Err"
        THEN Ended("Err", "install_version", e1 \o <<"install_version:Err">>, resolving)
      ELSE IF ~out.up_to_date /\ out.install = "Err"
        THEN Ended("Err", "install_version", e2 \o <<"install_version:Err">>, resolving)
      ELSE IF out.resolve = "Err"
        THEN Ended("Err", "resolve", e3 \o <<"resolve:Err">>, resolving)
      ELSE Ended("Next", "", e3 \o <<"resolve:Ok", "clear">>, <<>>)

\* lib.rs 113-137: launch up to progress_reporter().clear()
launch_prepare(input, out) ==
  LET fetching == Shown("Fetching version manifest", 0, 2)
      resolving == Shown("Resolving local version", 1, 2)
      e1 == <<"refresh:Ok">>
      e2 == e1 \o (IF input.local THEN <<>> ELSE <<"install_version:Ok">>)
      e3 == e2 \o (IF out.up_to_date THEN <<>> ELSE <<"install_version:Ok">>)
  IN  IF out.refresh = "Err"
        THEN Ended("Err", "refresh", <<"refresh:Err">>, fetching)
      ELSE IF ~input.local /\ out.install = "Err"
        THEN Ended("Err", "install_version", e1 \o <<"install_version:Err">>, resolving)
      ELSE IF ~input.applies
        THEN Ended("Err", "incompatible with the current environment", e2, resolving)
      ELSE IF ~out.up_to_date /\ out.install = "Err"
        THEN Ended("Err", "install_version", e2 \o <<"install_version:Err">>, resolving)
      ELSE IF out.resolve = "Err"
        THEN Ended("Err", "resolve", e3 \o <<"resolve:Err">>, resolving)
      ELSE Ended("Next", "", e3 \o <<"resolve:Ok", "clear">>, <<>>)

\* a buggy download_required_files: both jobs are started whatever the first
\* one returns
download_required_files_both(out) ==
  IF out.download_version = "Err"
    THEN Ended("Err", "download_version", <<"job1:new", "download_version:Err">>, <<>>)
  ELSE IF out.resources = "Err"
    THEN Ended("panic", "get_resource_files",
               <<"job1:new", "job1:queue", "job2:new", "get_resource_files:Err">>, <<>>)
  ELSE LET e == <<"job1:new", "job1:queue", "job2:new", "job2:queue",
                  "job1:start", "job1:" \o out.job1, "job2:start", "job2:" \o out.job2>>
       IN  IF out.job1 = "Err" THEN Ended("Err", "job1", e, <<>>)
           ELSE IF out.job2 = "Err" THEN Ended("Err", "job2", e, <<>>)
           ELSE Ended("Next", "", e, <<>>)

\* lib.rs 145-167: download_required_files
download_required_files(out) ==
  LET e1 == <<"job1:new">>
      e2 == e1 \o <<"job1:queue", "job2:new">>
      e3 == e2 \o <<"job2:queue", "job1:start">>
      e4 == e3 \o <<"job1:Ok", "job2:start">>
  IN  IF out.download_version = "Err"
        THEN Ended("Err", "download_version", e1 \o <<"download_version:Err">>, <<>>)
      ELSE IF out.resources = "Err"
        THEN Ended("panic", "get_resource_files", e2 \o <<"get_resource_files:Err">>, <<>>)
      ELSE IF out.job1 = "Err"
        THEN Ended("Err", "job1", e3 \o <<"job1:Err">>, <<>>)
      ELSE IF out.job2 = "Err"
        THEN Ended("Err", "job2", e4 \o <<"job2:Err">>, <<>>)
      ELSE Ended("Next", "", e4 \o <<"job2:Ok">>, <<>>)

\* lib.rs 339-374: perform_cleanups with a natives directory of an earlier
\* launch in the version directory; only a failed deletion is a warning
perform_cleanups(out) ==
  IF out.read_dir = "Err" THEN Ended("Err", "read_dir", <<"read_dir:Err">>, <<>>)
  ELSE IF out.metadata = "Err" THEN Ended("Err", "metadata", <<"metadata:Err">>, <<>>)
  ELSE IF out.remove_dir_all = "Err"
    THEN Ended("Ok", "", <<"warn:Failed to delete">>, <<>>)
  ELSE Ended("Ok", "", <<"remove_dir_all:Ok">>, <<>>)

\* lib.rs 169-336: launch_game by what ends it
launch_game(input, out) ==
  LET e1 == <<"natives_dir", "unpack_natives:Ok">>
      e2 == e1 \o <<"reconstruct_assets">>
      e3 == e2 \o <<"spawn:" \o out.spawn>>
      cleanups == perform_cleanups(out)
  IN  IF out.unpack = "Err"
        THEN Ended("Err", "Couldn't unpack natives!",
                   <<"natives_dir", "unpack_natives:Err">>, <<>>)
      ELSE IF ~input.asset_index
        THEN Ended("panic", "asset_index", e1, <<>>)
      ELSE IF out.classpath = "Err"
        THEN Ended("panic", "construct_classpath", e2, <<>>)
      ELSE IF input.proxy = "Proxy:without port"
        THEN Ended("panic", "port", e2, <<>>)
      ELSE IF cleanups.res = "Err"
        THEN Ended("Err", cleanups.error, e3 \o cleanups.events, <<>>)
      ELSE IF out.spawn = "Ok"
        THEN Ended("Ok", "", e3 \o cleanups.events, <<>>)
      ELSE Ended("Err", "Failed to launch game", e3 \o cleanups.events, <<>>)

LaunchInputs ==
  [local : BOOLEAN, applies : BOOLEAN, asset_index : BOOLEAN, proxy : Proxies]

PrepareOutcomes ==
  [refresh : Outcomes, install : Outcomes, up_to_date : BOOLEAN, resolve : Outcomes]
DownloadOutcomes ==
  [download_version : Outcomes, resources : Outcomes, job1 : Outcomes, job2 : Outcomes]
GameOutcomes ==
  [unpack : Outcomes, classpath : Outcomes, spawn : Outcomes, read_dir : Outcomes,
   metadata : Outcomes, remove_dir_all : Outcomes]

NoResult == [res |-> "none", error |-> ""]

StartIdle ==
  /\ launchInput = [local |-> TRUE, applies |-> TRUE, asset_index |-> TRUE,
                    proxy |-> "NoProxy"]
  /\ launchPc = "idle"
  /\ launchResult = NoResult
  /\ launchEvents = <<>>
  /\ progress = <<>>

StartInit ==
  /\ launchInput \in LaunchInputs
  /\ launchPc = "launch"
  /\ launchResult = NoResult
  /\ launchEvents = <<>>
  /\ progress = <<>>

\* one part of launch has run: go on with the next one, or launch has ended
Step(part, next) ==
  /\ launchEvents' = launchEvents \o part.events
  /\ progress' = part.progress
  /\ IF part.res = "Next"
       THEN launchPc' = next /\ UNCHANGED launchResult
       ELSE launchPc' = "done"
            /\ launchResult' = [res |-> part.res, error |-> part.error]
  /\ UNCHANGED launchInput

\* lib.rs 113-137
LaunchPrepare ==
  /\ launchPc = "launch"
  /\ \E out \in PrepareOutcomes : Step(launch_prepare(launchInput, out), "download")

\* lib.rs 139, 145-167
DownloadRequiredFiles ==
  /\ launchPc = "download"
  /\ \E out \in DownloadOutcomes : Step(download_required_files(out), "game")

\* lib.rs 141-142, 169-336
LaunchGame ==
  /\ launchPc = "game"
  /\ \E out \in GameOutcomes : Step(launch_game(launchInput, out), "done")

----------------------------------------------------------------------------
(* Specifications *)

vars == <<substVars, rulesVars, launchVars, fetchVars, downloadVars, startVars>>

\* the launches
Init == LaunchInit /\ SubstIdle /\ RulesIdle /\ FetchIdle /\ DownloadIdle /\ StartIdle
Next ==
  \/ \E r \in Runners : LaunchGameBegin(r) /\ UNCHANGED <<substVars, rulesVars, fetchVars, downloadVars, startVars>>
  \/ \E r \in Runners : UnpackNatives(r) /\ UNCHANGED <<substVars, rulesVars, fetchVars, downloadVars, startVars>>
  \/ \E r \in Runners : ReconstructAssets(r) /\ UNCHANGED <<substVars, rulesVars, fetchVars, downloadVars, startVars>>
  \/ \E r \in Runners : AssembleAndSpawn(r) /\ UNCHANGED <<substVars, rulesVars, fetchVars, downloadVars, startVars>>
  \/ \E r \in Runners : Cleanups(r) /\ UNCHANGED <<substVars, rulesVars, fetchVars, downloadVars, startVars>>
  \/ Tick /\ UNCHANGED <<substVars, rulesVars, fetchVars, downloadVars, startVars>>
Spec == Init /\ [][Next]_vars

\* the substitutor on its own
SpecSubstInit ==
  SubstInit /\ RulesIdle /\ LaunchIdle /\ FetchIdle /\ DownloadIdle /\ StartIdle
SpecSubstNext ==
  \/ SubstFirst /\ UNCHANGED <<rulesVars, launchVars, fetchVars, downloadVars, startVars>>
  \/ SubstSecond /\ UNCHANGED <<rulesVars, launchVars, fetchVars, downloadVars, startVars>>
SpecSubst == SpecSubstInit /\ [][SpecSubstNext]_vars

\* the rules of a library on their own
SpecRulesInit ==
  RulesInit /\ SubstIdle /\ LaunchIdle /\ FetchIdle /\ DownloadIdle /\ StartIdle
SpecRulesNext == RulesApply /\ UNCHANGED <<substVars, launchVars, fetchVars, downloadVars, startVars>>
SpecRules == SpecRulesInit /\ [][SpecRulesNext]_vars

\* fetch on its own
SpecFetchInit ==
  FetchInit /\ SubstIdle /\ RulesIdle /\ LaunchIdle /\ DownloadIdle /\ StartIdle
SpecFetchNext ==
  Fetch /\ UNCHANGED <<substVars, rulesVars, launchVars, downloadVars, startVars>>
SpecFetch == SpecFetchInit /\ [][SpecFetchNext]_vars

\* create_download on its own
SpecDownloadInit ==
  DownloadInit /\ SubstIdle /\ RulesIdle /\ LaunchIdle /\ FetchIdle /\ StartIdle
SpecDownloadNext ==
  CreateDownload /\ UNCHANGED <<substVars, rulesVars, launchVars, fetchVars, startVars>>
SpecDownload == SpecDownloadInit /\ [][SpecDownloadNext]_vars

\* launch, from the manifest to the process
SpecLaunchInit ==
  StartInit /\ SubstIdle /\ RulesIdle /\ LaunchIdle /\ FetchIdle /\ DownloadIdle
SpecLaunchNext ==
  \/ LaunchPrepare /\ UNCHANGED <<substVars, rulesVars, launchVars, fetchVars, downloadVars>>
  \/ DownloadRequiredFiles
       /\ UNCHANGED <<substVars, rulesVars, launchVars, fetchVars, downloadVars>>
  \/ LaunchGame /\ UNCHANGED <<substVars, rulesVars, launchVars, fetchVars, downloadVars>>
SpecLaunch == SpecLaunchInit /\ [][SpecLaunchNext]_vars

----------------------------------------------------------------------------
(* Claims *)

\* the launches that have run a step of launch_game
Unpacked(r) == runner[r].pc \notin {"start", "unpack"}

Range(s) == {s[i] : i \in 1..Len(s)}

RelevantLibraries == get_relevant_libraries(version, Matcher)

NativeJarOf(lib) ==
  LibraryFile(platform.os, get_artifact_path(lib, Some(lib.natives[platform.os])))

\* C1: cleanup_old_natives deletes a natives directory if and only if its
\* last-modified time is more than one hour before the cleanup runs; a
\* directory modified less than an hour ago is still there afterwards.
C1_CleanupDeletesExactlyTheExpired ==
  [][\A r \in Runners :
       (runner[r].pc = "cleanup" /\ runner'[r].pc = "done") =>
         \A d \in DirNames :
           IsSome(nativesDirs[d]) =>
             ((nativesDirs'[d] = <<>>) <=>
              (timestamp_millis(clock) - nativesDirs[d][1].mtime > HourMillis))]_vars

\* C2: two launches of the same version in the same game directory never
\* extract natives into the same directory.
C2_NativesDirIsUnique ==
  \A r1, r2 \in Runners :
    (r1 # r2 /\ IsSome(runner[r1].natives_dir) /\ IsSome(runner[r2].natives_dir))
      => runner[r1].natives_dir # runner[r2].natives_dir

\* C3: with a non-empty access token, no logged line that holds command-line
\* arguments contains the token, and the line of the full command shows
\* ????? where the token was.
C3_TokenNeverLogged ==
  \A r \in Runners :
    options.token # <<>> =>
      \A i \in 1..Len(runner[r].log) :
        /\ ~Contains(runner[r].log[i].text, options.token)
        /\ (runner[r].log[i].kind = "Running"
            /\ Contains(Join(runner[r].args, <<" ">>), options.token))
             => Contains(runner[r].log[i].text, Redacted)

\* C4: a failure of one native library is isolated: unpack_natives does not
\* fail the launch, and of every relevant native library whose archive opens
\* every entry that is to be extracted and can be written is extracted.
C4_NativeFailuresAreIsolated ==
  \A r \in Runners :
    Unpacked(r) =>
      /\ runner[r].error # "Couldn't unpack natives!"
      /\ \A i \in 1..Len(RelevantLibraries) :
           LET lib == RelevantLibraries[i]
           IN  (platform.os \in DOMAIN lib.natives
                /\ is_file(libraryFiles, NativeJarOf(lib))) =>
                 \A e \in Range(FileAt(libraryFiles, NativeJarOf(lib)).entries) :
                   (e.kind = "file"
                    /\ (IsSome(lib.extract) => should_extract(lib.extract[1], e.path)))
                     => <<lib.id, e.path>> \in runner[r].written

ClasspathMissing ==
  \E p \in Range(get_classpath(version, platform.os, Matcher)) :
    ~is_file(libraryFiles, p)

\* C5: when a path of the classpath is not a file the launch returns a
\* classpath error to its caller and spawns nothing; when the process is
\* spawned every path of the classpath is a file.
C5_ClasspathMissingIsAnError ==
  \A r \in Runners :
    /\ (runner[r].classpath_checked /\ ClasspathMissing) =>
         /\ runner[r].result = "Err"
         /\ runner[r].error = "Classpath file not found"
         /\ ~runner[r].spawned
    /\ runner[r].spawned => ~ClasspathMissing

\* C6: reconstruct_assets copies the object of a name of the index if and
\* only if the destination is missing or its SHA-1 differs from the index.
C6_CopiesOnlyMissingOrMismatched ==
  [][\A r \in Runners :
       (runner[r].pc = "assets" /\ runner'[r].pc = "command"
        /\ IsSome(assetIndex)
        /\ (assetIndex[1].is_virtual \/ assetIndex[1].map_to_resources)) =>
         \A n \in DOMAIN assetIndex[1].objects :
           (n \in runner'[r].copied) <=>
             (~IsSome(assetFiles[n]) \/ assetFiles[n][1] # assetIndex[1].objects[n])]_vars

\* C7: the path the native unpacker opens never contains the literal ${arch}:
\* the classifier template is expanded to 32 or 64 first.
C7_ArchIsExpanded ==
  \A r \in Runners :
    \A i \in 1..Len(runner[r].opened) :
      ~Contains(runner[r].opened[i], Ph("arch"))

BothShapes == DOMAIN version.arguments # {} /\ IsSome(version.minecraft_arguments)

ModernArguments(kind, map) ==
  IF kind \in DOMAIN version.arguments
    THEN MapSubstitutor(map, ApplyAll(version.arguments[kind], Matcher))
    ELSE <<>>

\* words only the legacy branches put on the command line
LegacyOnly ==
  {<<"-Dminecraft.launcher.brand=", "launcher">>,
   <<"-Dminecraft.launcher.version=", "1.0">>,
   <<"-Xdock:name=Minecraft">>, <<"-Dos.name=Windows 10">>,
   <<"--session">>, <<"--demo">>, <<"--height">>}

\* C8: with a non-empty modern arguments map and a legacy minecraftArguments
\* the command line is the user's JVM arguments, arguments.jvm, the main
\* class and arguments.game, and holds none of the legacy additions.
C8_ModernShapeWins ==
  \A r \in Runners :
    (runner[r].args # <<>> /\ BothShapes) =>
      LET cp == Join(get_classpath(version, platform.os, Matcher),
                     <<IF platform.os = "windows" THEN ";" ELSE ":">>)
          map == Substitutor(Substitutions(platform.os, version, options, assetIndex,
                                           runner[r].natives_dir[1], cp))
      IN  /\ runner[r].args =
               user_jvm_arguments(options) \o ModernArguments("jvm", map)
                 \o <<version.main_class>> \o ModernArguments("game", map)
          /\ Range(runner[r].args) \cap LegacyOnly = {}

\* a spawned launch of a version with both shapes, on Windows 10 with a
\* custom resolution, whose command line holds arguments of both kinds
C8_Witness ==
  /\ runner[1].result = "Ok"
  /\ BothShapes
  /\ platform.win_ten
  /\ IsSome(options.resolution)
  /\ {"jvm", "game"} \subseteq DOMAIN version.arguments
  /\ <<"--width">> \in Range(runner[1].args)

FullySubstituted(s) == \A k \in DOMAIN sMap : ~Contains(s, Placeholder(k))

\* C9 (as stated): applying the substitutor to its own output returns that
\* output unchanged, for every map and every input, and a placeholder whose
\* key is not in the map is left verbatim.
C9_Idempotent ==
  sApplied = 2 =>
    /\ sOut2 = sOut1
    /\ Count(sOut1, Placeholder(KeyU)) >= Count(sInput, Placeholder(KeyU))

\* C9 (amended): an output that holds no placeholder of a key of the map is
\* returned unchanged by a second application; an input that holds no such
\* placeholder is returned unchanged by the first; and no placeholder of a
\* key that is not in the map is ever removed.
C9_FullySubstitutedIsFixed ==
  /\ sApplied >= 1 =>
       /\ Count(sOut1, Placeholder(KeyU)) >= Count(sInput, Placeholder(KeyU))
       /\ FullySubstituted(sInput) => sOut1 = sInput
  /\ sApplied = 2 => (FullySubstituted(sOut1) => sOut2 = sOut1)

\* a second application of a substitution that replaced a known placeholder
\* beside an unknown one, on a fully substituted output
C9_Witness ==
  /\ sApplied = 2
  /\ Contains(sInput, Placeholder(KeyA))
  /\ Contains(sInput, Placeholder(KeyU))
  /\ sOut1 # sInput
  /\ FullySubstituted(sOut1)
  /\ sOut2 = sOut1

\* C10: applies_to_current_environment is true for an empty rule list; for a
\* non-empty list it is true exactly when the last rule that matches the
\* environment has action allow, and false when no rule matches.
C10_LastMatchingRuleDecides ==
  rDone =>
    rResult =
      IF rRules = <<>> THEN TRUE
      ELSE \E i \in 1..Len(rRules) :
             /\ RuleMatches(rRules[i], rMatcher)
             /\ rRules[i].action = "allow"
             /\ \A j \in (i + 1)..Len(rRules) : ~RuleMatches(rRules[j], rMatcher)

\* two matching rules, disallow then allow: the later one decides
C10_Witness ==
  /\ rDone
  /\ Len(rRules) = 2
  /\ RuleMatches(rRules[1], rMatcher) /\ rRules[1].action = "disallow"
  /\ RuleMatches(rRules[2], rMatcher) /\ rRules[2].action = "allow"
  /\ rResult

\* C11: fetch returns a parsed version only if the digest of the downloaded
\* document equals the sha1 of the index entry; when the digests differ it
\* returns an error and no version, whether or not the bytes would parse.
C11_FetchVerifiesSha1 ==
  fDone =>
    /\ fResult.res = "Ok" =>
         /\ IsSome(fResponse)
         /\ Sha1Sum(fResponse[1]) = fSha1
         /\ IsSome(fResult.value)
         /\ fResult.value = from_slice(fResponse[1])
    /\ (IsSome(fResponse) /\ Sha1Sum(fResponse[1]) # fSha1) =>
         (fResult.res = "Err" /\ fResult.value = <<>>)

\* a document that parses and whose digest is not the one of the index
C11_Witness ==
  /\ fDone
  /\ IsSome(fResponse)
  /\ Sha1Sum(fResponse[1]) # fSha1
  /\ IsSome(from_slice(fResponse[1]))
  /\ fResult.res = "Err"

\* the base a library is downloaded from when it has one
LibraryBase == IF IsSome(dLibrary.url) THEN dLibrary.url[1] ELSE DefaultBase
HasLibraryBase ==
  /\ IsSome(dLibrary.url) \/ ~IsSome(dLibrary.downloads)
  /\ IsSome(Url_parse(LibraryBase))
\* scheme and host of a URL string, and its query
OriginOf(str) == SubSeq(str, 1, 3)
QueryOf(str) == Url_parse(str)[1].query
PathOf(str) == Url_parse(str)[1].path
Rooted(path) == IF StartsWith(path, <<"/">>) THEN path ELSE <<"/">> \o path

\* C12 as stated: the download of a library base targets the base with its
\* path replaced by the artifact path of the library for the classifier.
C12_PathIsArtifactPath ==
  (dDone /\ HasLibraryBase) =>
    /\ IsSome(dResult)
    /\ dResult[1].url =
         OriginOf(LibraryBase) \o <<"/">>
           \o get_artifact_path(dLibrary, dClassifier) \o QueryOf(LibraryBase)

\* C12: the download of a library base targets the base with its path
\* replaced, not appended, by a percent-encoded path: for the library's own
\* url the artifact path of the library for the classifier, for the default
\* base the artifact_path argument of the caller. The two branches yield the
\* same path when the caller passes the artifact path for the classifier.
C12_PathReplaced ==
  (dDone /\ HasLibraryBase) =>
    LET path == IF IsSome(dLibrary.url)
                  THEN get_artifact_path(dLibrary, dClassifier)
                  ELSE dArtifactPath
    IN  /\ IsSome(dResult)
        /\ dResult[1].url =
             OriginOf(LibraryBase) \o percent_encode(Rooted(path))
               \o QueryOf(LibraryBase)
        /\ dArtifactPath = get_artifact_path(dLibrary, dClassifier) =>
             \A base \in {b \in LibraryBases : IsSome(Url_parse(b))} :
               PathOf(create_download([dLibrary EXCEPT !.url = Some(base)],
                                      dArtifactPath, dClassifier)[1].url)
                 = PathOf(create_download(
                            [dLibrary EXCEPT !.url = <<>>, !.downloads = <<>>],
                            dArtifactPath, dClassifier)[1].url)

\* a base with a path of its own, which is not in the URL of the download
C12_Witness ==
  /\ dDone
  /\ IsSome(dLibrary.url)
  /\ "repo" \in Range(LibraryBase)
  /\ IsSome(dResult)
  /\ "repo" \notin Range(dResult[1].url)
  /\ dResult[1].url # LibraryBase

Happened(event) == event \in Range(launchEvents)

\* C13: the two download jobs of a launch run one after the other: the
\* second job never starts before the first has ended well, and when the
\* first fails the second is never started and the game is never launched.
C13_JobsRunSequentially ==
  /\ \A i \in 1..Len(launchEvents) :
       launchEvents[i] = "job2:start" =>
         \E j \in 1..(i - 1) : launchEvents[j] = "job1:Ok"
  /\ Happened("job1:Err") =>
       /\ ~Happened("job2:start")
       /\ ~Happened("natives_dir")
       /\ ~Happened("spawn:Ok") /\ ~Happened("spawn:Err")
       /\ launchPc = "done"
       /\ launchResult.res = "Err"

\* a launch whose first job failed
C13_Witness ==
  /\ launchPc = "done"
  /\ Happened("job1:start")
  /\ Happened("job1:Err")
  /\ launchResult = [res |-> "Err", error |-> "job1"]

\* C14: when the version does not apply to the environment, launch ends in
\* an error (the incompatible-environment one once the manifest is there and
\* the version installed) and no file is queued or downloaded by a job, no
\* natives directory created and no process spawned.
C14_IncompatibleFailsEarly ==
  ~launchInput.applies =>
    /\ \A e \in {"job1:new", "job1:queue", "job2:queue", "job1:start",
                  "job2:start", "natives_dir", "spawn:Ok", "spawn:Err"} :
         ~Happened(e)
    /\ launchPc \in {"launch", "done"}
    /\ launchPc = "done" =>
         /\ launchResult.res = "Err"
         /\ launchResult.error \in
              {"refresh", "install_version", "incompatible with the current environment"}
         /\ (Happened("refresh:Ok") /\ ~Happened("install_version:Err")) =>
              launchResult.error = "incompatible with the current environment"

\* a version that was installed and then found incompatible
C14_Witness ==
  /\ launchPc = "done"
  /\ ~launchInput.applies
  /\ Happened("install_version:Ok")
  /\ launchResult.error = "incompatible with the current environment"

\* C15: every failure of a launch is returned to the caller as an error:
\* a launch never aborts abnormally, also when the resource files cannot be
\* enumerated, the version has no asset index or the proxy URL has no port.
C15_FailuresAreReturned ==
  launchPc = "done" => launchResult.res \in {"Ok", "Err"}

\* C16: when the process was spawned, launch_game returns its handle
\* whatever the housekeeping after the spawn does.
C16_SpawnedProcessIsReturned ==
  (launchPc = "done" /\ Happened("spawn:Ok")) => launchResult.res = "Ok"

\* C17: a launch that has ended has cleared the progress reporter, and the
\* clear comes before the first download job is made.
C17_ProgressCleared ==
  /\ launchPc = "done" => progress = <<>>
  /\ \A i \in 1..Len(launchEvents) :
       launchEvents[i] = "job1:new" =>
         \E j \in 1..(i - 1) : launchEvents[j] = "clear"

\* C18: the output of the substitutor is the same in whatever order the
\* entries of the map are visited.
C18_OrderIndependent ==
  sApplied >= 1 =>
    \A order \in Orders(DOMAIN sMap) : build(sMap, order, sInput) = sOut1

====
